---- MODULE Spec2Model ----
(***************************************************************************)
(* Link-discovery core of the katana standard engine:                      *)
(*   - Crawler.makeRequest      (pkg/standard/request.go)                  *)
(*   - parseResponse and the registry of response parsers                  *)
(*   - the scope manager exercised by TestManagerValidate                  *)
(*                                                                         *)
(* Strings are sequences of tokens (<<>> is the empty string); a pointer   *)
(* is a record with a nil flag.                                            *)
(***************************************************************************)
EXTENDS Integers, Sequences, FiniteSets, TLC

VARIABLES
    pc,          \* "fetch" | "parse" | "done" | "panic" | "failed" | scope phases
    options,     \* c.options.Options (ScrapeJSResponses)
    request,     \* the NavigationRequest handed to makeRequest
    httpOutcome, \* what c.httpclient.Do and the body read produced
    response,    \* the NavigationResponse returned by makeRequest
    err,         \* the error returned by makeRequest (FALSE = nil)
    parserIdx,   \* position of parseResponse's range loop
    invoked,     \* names of the parsers called so far
    emitted,     \* callback invocations so far, in call order
    formChoices, \* per form: multipart boundary and map iteration order
    manager,     \* scope manager under test
    scopeHost,   \* host of the URL handed to Validate
    validated    \* result of Validate: [inScope, err]

vars == <<pc, options, request, httpOutcome, response, err, parserIdx,
          invoked, emitted, formChoices, manager, scopeHost, validated>>

crawlVars == <<options, request, httpOutcome, response, err, parserIdx,
               invoked, emitted, formChoices>>
scopeVars == <<manager, scopeHost, validated>>

-----------------------------------------------------------------------------
\* Bounds of the model.

\* Largest depth of the request handed to makeRequest.
MaxDepth == 1
\* Largest number of elements of a generated document.
MaxElems == 2

-----------------------------------------------------------------------------
\* String helpers (Go's strings package on token sequences).

EmptyStr == <<>>

RECURSIVE Concat(_)
Concat(ss) == IF ss = <<>> THEN <<>> ELSE Head(ss) \o Concat(Tail(ss))

Last(s) == s[Len(s)]

HasPrefix(s, tok) == Len(s) >= 1 /\ Head(s) = tok
HasSuffix(s, tok) == Len(s) >= 1 /\ Last(s) = tok
ContainsTok(s, tok) == \E i \in 1..Len(s) : s[i] = tok

\* sub occurs in s as a contiguous run of tokens
ContainsSeq(s, sub) ==
    \E i \in 0..(Len(s) - Len(sub)) : SubSeq(s, i + 1, i + Len(sub)) = sub

ToUpperTable ==
    ("get" :> "GET") @@ ("GET" :> "GET") @@ ("post" :> "POST")
    @@ ("POST" :> "POST") @@ ("put" :> "PUT")
ToUpper(s) == [i \in DOMAIN s |-> ToUpperTable[s[i]]]

\* Attr(name): (value, ok); an absent attribute yields ("", false)
HasAttr(item, name) == name \in DOMAIN item.attrs
Attr(item, name) == IF HasAttr(item, name) THEN item.attrs[name] ELSE EmptyStr

\* http.Header.Get: "" when the header is absent
HeaderGet(header, name) == IF name \in DOMAIN header THEN header[name] ELSE EmptyStr

NoHeaders == [h \in {} |-> EmptyStr]

-----------------------------------------------------------------------------
\* Helpers of pkg/utils and pkg/navigation that the parsers call.

\* utils.ParseRefreshTag: the part of a refresh directive after ";url=",
\* "" when the directive names no URL.
RECURSIVE ParseRefreshTag(_)
ParseRefreshTag(value) ==
    IF value = <<>> THEN EmptyStr
    ELSE IF Head(value) = ";url=" THEN Tail(value)
    ELSE ParseRefreshTag(Tail(value))

\* utils.ParseLinkTag: every URL written between "<" and ">" in a Link header.
RECURSIVE ParseLinkTag(_)
ParseLinkTag(value) ==
    IF Len(value) < 3 THEN <<>>
    ELSE IF value[1] = "<" /\ value[3] = ">"
         THEN << <<value[2]>> >> \o ParseLinkTag(SubSeq(value, 4, Len(value)))
         ELSE ParseLinkTag(Tail(value))

\* utils.ExtractRelativeEndpoints: the relative endpoints found in a text.
EndpointTokens == {"/api/a", "/api/b"}
RECURSIVE ExtractRelativeEndpoints(_)
ExtractRelativeEndpoints(text) ==
    IF text = <<>> THEN <<>>
    ELSE (IF Head(text) \in EndpointTokens THEN << <<Head(text)>> >> ELSE <<>>)
         \o ExtractRelativeEndpoints(Tail(text))

\* NavigationResponse.AbsoluteURL: resolves a reference against the final
\* request URL of the response; "" when the reference cannot be resolved.
Unparsable == "%zz"
AbsoluteSchemes == {"http://other"}
AbsoluteURL(resp, ref) ==
    IF ContainsTok(ref, Unparsable) THEN EmptyStr
    ELSE IF Len(ref) >= 1 /\ Head(ref) \in AbsoluteSchemes THEN ref
    ELSE <<resp.Resp.Host>> \o ref

\* navigation.NewNavigationRequestURL: a GET request for a reference found
\* in resp, one hop below it.
NewNavigationRequestURL(ref, source, resp) ==
    [Method  |-> <<"GET">>,
     URL     |-> AbsoluteURL(resp, ref),
     Body    |-> EmptyStr,
     Headers |-> NoHeaders,
     Depth   |-> resp.Depth + 1,
     Source  |-> source]

-----------------------------------------------------------------------------
\* net/url and mime/multipart as bodyFormTagParser uses them.

\* url.QueryEscape
QueryEscapeTok(t) ==
    CASE t = " " -> <<"+">>
      [] t = "&" -> <<"%26">>
      [] t = "=" -> <<"%3D">>
      [] OTHER   -> <<t>>
QueryEscape(s) == Concat([i \in DOMAIN s |-> QueryEscapeTok(s[i])])

\* Go's string order on the keys the model uses (url.Values.Encode sorts).
KeyOrder == << <<>>, <<"a", " ", "b">>, <<"e">>, <<"q">> >>

\* url.Values.Encode: "k=v" pairs, keys sorted, joined by "&"
RECURSIVE EncodeFrom(_, _, _)
EncodeFrom(values, i, first) ==
    IF i > Len(KeyOrder) THEN EmptyStr
    ELSE IF KeyOrder[i] \in DOMAIN values
         THEN (IF first THEN <<>> ELSE <<"&">>)
              \o QueryEscape(KeyOrder[i]) \o <<"=">> \o QueryEscape(values[KeyOrder[i]])
              \o EncodeFrom(values, i + 1, FALSE)
         ELSE EncodeFrom(values, i + 1, first)
Encode(values) == EncodeFrom(values, 1, TRUE)

CRLF == "\r\n"

\* multipart.Writer.WriteField for the n-th part written
WriteField(boundary, n, key, value) ==
    (IF n = 1 THEN <<"--", boundary, CRLF>> ELSE <<CRLF, "--", boundary, CRLF>>)
    \o <<"Content-Disposition: form-data; name=\"">> \o key \o <<"\"", CRLF, CRLF>>
    \o value

\* multipart.Writer.Close
CloseDelimiter(boundary) == <<CRLF, "--", boundary, "--", CRLF>>

\* multipart.Writer.FormDataContentType (first: naming a boundary of its own)
FormDataContentTypeOwnBoundary(boundary) == <<"multipart/form-data; boundary=", "b0">>
FormDataContentType(boundary) == <<"multipart/form-data; boundary=", boundary>>

\* the boundaries multipart.NewWriter may draw
Boundaries == {"b1", "b2"}

\* every order in which Go may range over the keys of a map
Perms(S) == {p \in [1..Cardinality(S) -> S] : \A i, j \in DOMAIN p : p[i] = p[j] => i = j}

-----------------------------------------------------------------------------
\* Inputs: pages, headers and the outcomes of the HTTP call.

Elem(tag, attrs, text, fields) ==
    [tag |-> tag, attrs |-> attrs, text |-> text, fields |-> fields]

NoAttrs == [a \in {} |-> EmptyStr]
NoFields == [k \in {} |-> EmptyStr]

SimpleElems ==
    { Elem("a", [href |-> <<"/x">>, ping |-> <<"/p">>], EmptyStr, NoFields),
      Elem("a", [href |-> <<Unparsable>>], EmptyStr, NoFields),
      Elem("embed", [src |-> <<"/e">>], EmptyStr, NoFields),
      Elem("frame", [src |-> <<"/fr">>], EmptyStr, NoFields),
      Elem("iframe", [src |-> EmptyStr], EmptyStr, NoFields),
      Elem("input", [type |-> <<"image">>, src |-> <<"/img">>], EmptyStr, NoFields),
      Elem("isindex", [action |-> <<"/q">>], EmptyStr, NoFields),
      Elem("script", [src |-> <<"/s.js">>], EmptyStr, NoFields),
      Elem("script", NoAttrs, <<"fetch(", "/api/a", ")", "/api/b">>, NoFields),
      Elem("meta", [httpEquiv |-> <<"refresh">>, content |-> <<"0", ";url=", "/m">>],
           EmptyStr, NoFields) }

\* what utils.FormInputFillSuggestions returns for the inputs of a form
FieldSets ==
    { NoFields,
      (<<"q">> :> <<"v">>) @@ (<<"e">> :> EmptyStr) @@ (EmptyStr :> <<"x">>),
      (<<"a", " ", "b">> :> <<"x", "&", "y">>) @@ (<<"q">> :> <<"v">>) }

MethodAttrs == { NoAttrs, [method |-> EmptyStr], [method |-> <<"get">>],
                 [method |-> <<"POST">>], [method |-> <<"post">>], [method |-> <<"put">>] }
EnctypeAttrs == { NoAttrs, [enctype |-> <<"multipart/", "form-data">>],
                  [enctype |-> <<"text/plain">>] }

Forms ==
    { Elem("form", [action |-> <<"/f">>] @@ m @@ e, EmptyStr, f) :
        m \in MethodAttrs, e \in EnctypeAttrs, f \in FieldSets }
    \cup
    { Elem("form", [action |-> <<Unparsable>>, method |-> <<"post">>], EmptyStr, NoFields),
      Elem("form", [action |-> <<"/f">>, enctype |-> EmptyStr, method |-> <<"post">>],
           EmptyStr, (<<"q">> :> <<"v">>)),
      Elem("form", [action |-> <<"/f">>, enctype |-> <<"multipart/", "mixed">>],
           EmptyStr, (<<"q">> :> <<"v">>)) }

SeqsUpTo(S, n) == UNION { [1..k -> S] : k \in 0..n }

MixedDoc ==
    << Elem("a", [href |-> <<"/x">>, ping |-> <<"/p">>], EmptyStr, NoFields),
       Elem("form", [action |-> <<"/f">>, method |-> <<"post">>,
                     enctype |-> <<"multipart/", "form-data">>], EmptyStr,
            (<<"q">> :> <<"v">>)),
       Elem("script", NoAttrs, <<"/api/a">>, NoFields),
       Elem("a", [href |-> <<Unparsable>>, ping |-> <<"/p2">>], EmptyStr, NoFields),
       Elem("form", [action |-> <<"/g">>], EmptyStr, (<<"q">> :> <<"v">>)),
       Elem("meta", [httpEquiv |-> <<"refresh">>, content |-> <<"5">>], EmptyStr, NoFields) >>

Page(text, elems) == [text |-> text, elems |-> elems]

EmptyPage == Page(EmptyStr, <<>>)
JsPage == Page(<<"var", "/api/a", "=", "/api/b">>, <<>>)
SmallPages == { EmptyPage, JsPage, Page(EmptyStr, MixedDoc) }
SimplePages == { Page(EmptyStr, d) : d \in SeqsUpTo(SimpleElems, MaxElems) }
FormPages == { Page(EmptyStr, <<f>>) : f \in Forms }

HtmlHeader == ("Content-Type" :> <<"text/html">>)
AllHeader ==
    ("Content-Location" :> <<"/cl">>)
    @@ ("Link" :> <<"<", "/l1", ">", ";rel=next", ",", "<", "/l2", ">">>)
    @@ ("Location" :> <<"/loc">>)
    @@ ("Refresh" :> <<"5", ";url=", "/r">>)
    @@ HtmlHeader
BadHeader ==
    ("Location" :> <<Unparsable>>) @@ ("Refresh" :> <<"5">>) @@ ("Link" :> <<"/l">>)
JsHeader == ("Content-Type" :> <<"application", "/javascript">>)

Served(code, header, path, page) ==
    [transportErr |-> FALSE, readErr |-> FALSE, StatusCode |-> code,
     Header |-> header, Path |-> path, page |-> page]

Servings ==
    { <<200, HtmlHeader, <<"/">> >>, <<200, AllHeader, <<"/">> >>,
      <<301, BadHeader, <<"/">> >>, <<500, AllHeader, <<"/">> >>,
      <<200, JsHeader, <<"/x">> >>, <<203, HtmlHeader, <<"/app", ".js">> >> }

\* every outcome of c.httpclient.Do followed by the read of the body
Outcomes ==
    { [Served(200, HtmlHeader, <<"/">>, EmptyPage) EXCEPT !.transportErr = TRUE],
      [Served(200, HtmlHeader, <<"/">>, EmptyPage) EXCEPT !.readErr = TRUE],
      Served(404, HtmlHeader, <<"/">>, Page(EmptyStr, MixedDoc)) }
    \cup { Served(s[1], s[2], s[3], p) : s \in Servings, p \in SmallPages }
    \cup { Served(c, HtmlHeader, <<"/">>, p) : c \in {200, 500}, p \in FormPages }
    \cup { Served(200, HtmlHeader, <<"/">>, p) : p \in SimplePages }

-----------------------------------------------------------------------------
\* Crawler.makeRequest

NilResp == [nil |-> TRUE, StatusCode |-> 0, Header |-> NoHeaders,
            Host |-> "", Path |-> EmptyStr]
NilReader == [nil |-> TRUE, elems |-> <<>>]
NilBody == [nil |-> TRUE, data |-> EmptyPage]

\* response.Depth as set when the response is created
ResponseDepth(req) == req.Depth + 1

\* the status check made before the body is read (first: rejecting every
\* status outside 2xx as well)
IsNotFoundOrNot2xx(code) == code = 404 \/ code \notin 200..299
IsNotFound(code) == code = 404

RequestHost == "http://h"

\* goquery.NewDocumentFromReader: the elements of the page
NewDocumentFromReader(data) == [nil |-> FALSE, elems |-> data.elems]

\* the (response, error) pair makeRequest returns for an outcome of the call
makeRequestResult(req, opts, o) ==
    LET empty == [Depth |-> ResponseDepth(req), Options |-> opts,
                  Body |-> NilBody, Resp |-> NilResp, Reader |-> NilReader]
    IN  IF ContainsTok(req.URL, Unparsable) THEN [response |-> empty, err |-> TRUE]
        ELSE IF o.transportErr THEN [response |-> empty, err |-> TRUE]
        ELSE IF IsNotFound(o.StatusCode) THEN [response |-> empty, err |-> FALSE]
        ELSE IF o.readErr THEN [response |-> empty, err |-> TRUE]
        ELSE [response |->
                [empty EXCEPT
                    !.Body = [nil |-> FALSE, data |-> o.page],
                    !.Resp = [nil |-> FALSE, StatusCode |-> o.StatusCode,
                              Header |-> o.Header, Host |-> RequestHost,
                              Path |-> o.Path],
                    !.Reader = NewDocumentFromReader(o.page)],
              err |-> FALSE]

NoOutcome == [Served(0, NoHeaders, EmptyStr, EmptyPage) EXCEPT !.transportErr = TRUE]
NoResponse == [Depth |-> 0, Options |-> [ScrapeJSResponses |-> FALSE],
               Body |-> NilBody, Resp |-> NilResp, Reader |-> NilReader]

makeRequest ==
    /\ pc = "fetch"
    /\ \E o \in (IF ContainsTok(request.URL, Unparsable) THEN {NoOutcome} ELSE Outcomes) :
        LET r == makeRequestResult(request, options, o)
        IN  /\ httpOutcome' = o
            /\ response' = r.response
            /\ err' = r.err
            /\ pc' = IF r.err THEN "failed" ELSE "parse"
    /\ UNCHANGED <<options, request, parserIdx, invoked, emitted, formChoices>>
    /\ UNCHANGED scopeVars

-----------------------------------------------------------------------------
\* The response parsers: what each passes to the callback, in call order.
\* An entry names the matched element (0 for a header or the raw body).

responseParsers ==
    << "headerContentLocationParser", "headerLinkParser", "headerLocationParser",
       "headerRefreshParser",
       "bodyATagParser", "bodyEmbedTagParser", "bodyFrameTagParser",
       "bodyIframeTagParser", "bodyInputSrcTagParser", "bodyIsindexActionTagParser",
       "bodyScriptSrcTagParser", "bodyFormTagParser", "bodyMetaContentTagParser",
       "scriptContentRegexParser", "scriptJSFileRegexParser" >>

Call(i, req) == << [elem |-> i, req |-> req] >>

\* the elements of the parsed document, by position
Items(resp) == DOMAIN resp.Reader.elems
Item(resp, i) == resp.Reader.elems[i]

\* one "attr, ok := item.Attr(name); if ok && attr != "" { callback(...) }"
AttrCall(i, item, name, source, resp) ==
    IF HasAttr(item, name) /\ Attr(item, name) # EmptyStr
    THEN Call(i, NewNavigationRequestURL(Attr(item, name), source, resp))
    ELSE <<>>

headerContentLocationOut(resp) ==
    LET header == HeaderGet(resp.Resp.Header, "Content-Location")
    IN  IF header = EmptyStr THEN <<>>
        ELSE Call(0, NewNavigationRequestURL(header, "content-location", resp))

headerLinkOut(resp) ==
    LET header == HeaderGet(resp.Resp.Header, "Link")
        values == ParseLinkTag(header)
    IN  IF header = EmptyStr THEN <<>>
        ELSE Concat([i \in DOMAIN values |->
                        Call(0, NewNavigationRequestURL(values[i], "link", resp))])

headerLocationOut(resp) ==
    LET header == HeaderGet(resp.Resp.Header, "Location")
    IN  IF header = EmptyStr THEN <<>>
        ELSE Call(0, NewNavigationRequestURL(header, "location", resp))

headerRefreshOut(resp) ==
    LET header == HeaderGet(resp.Resp.Header, "Refresh")
        values == ParseRefreshTag(header)
    IN  IF header = EmptyStr THEN <<>>
        ELSE IF values = EmptyStr THEN <<>>
        ELSE Call(0, NewNavigationRequestURL(values, "refresh", resp))

\* Selection.Find: whether an element matches a selector the parsers use
Matches(selector, item) ==
    CASE selector = "a" -> item.tag = "a"
      [] selector = "embed[src]" -> item.tag = "embed" /\ HasAttr(item, "src")
      [] selector = "frame[src]" -> item.tag = "frame" /\ HasAttr(item, "src")
      [] selector = "iframe[src]" -> item.tag = "iframe" /\ HasAttr(item, "src")
      [] selector = "input[type='image']" ->
            item.tag = "input" /\ Attr(item, "type") = <<"image">>
      [] selector = "isindex[action]" -> item.tag = "isindex" /\ HasAttr(item, "action")
      [] selector = "script[src]" -> item.tag = "script" /\ HasAttr(item, "src")
      [] selector = "form[action]" -> item.tag = "form" /\ HasAttr(item, "action")
      [] selector = "meta[http-equiv='refresh']" ->
            item.tag = "meta" /\ Attr(item, "httpEquiv") = <<"refresh">>
      [] selector = "script" -> item.tag = "script"

\* resp.Reader.Find(selector).Each(visit): visit[i] holds the callbacks made
\* when the function passed to Each is applied to element i
FindEach(resp, selector, visit) ==
    Concat([i \in Items(resp) |->
              IF Matches(selector, Item(resp, i)) THEN visit[i] ELSE <<>>])

bodyATagOut(resp) ==
    FindEach(resp, "a",
        [i \in Items(resp) |-> AttrCall(i, Item(resp, i), "href", "a", resp)
                               \o AttrCall(i, Item(resp, i), "ping", "a", resp)])

bodyEmbedTagOut(resp) ==
    FindEach(resp, "embed[src]",
        [i \in Items(resp) |-> AttrCall(i, Item(resp, i), "src", "embed", resp)])

bodyFrameTagOut(resp) ==
    FindEach(resp, "frame[src]",
        [i \in Items(resp) |-> AttrCall(i, Item(resp, i), "src", "frame", resp)])

bodyIframeTagOut(resp) ==
    FindEach(resp, "iframe[src]",
        [i \in Items(resp) |-> AttrCall(i, Item(resp, i), "src", "iframe", resp)])

bodyInputSrcTagOut(resp) ==
    FindEach(resp, "input[type='image']",
        [i \in Items(resp) |-> AttrCall(i, Item(resp, i), "src", "input", resp)])

bodyIsindexActionTagOut(resp) ==
    FindEach(resp, "isindex[action]",
        [i \in Items(resp) |-> AttrCall(i, Item(resp, i), "action", "isindex", resp)])

bodyScriptSrcTagOut(resp) ==
    FindEach(resp, "script[src]",
        [i \in Items(resp) |-> AttrCall(i, Item(resp, i), "src", "script", resp)])

MetaCall(i, item, resp) ==
    LET values == ParseRefreshTag(Attr(item, "content"))
    IN  IF ~HasAttr(item, "content") THEN <<>>
        ELSE IF values = EmptyStr THEN <<>>
        ELSE Call(i, NewNavigationRequestURL(values, "meta", resp))

bodyMetaContentTagOut(resp) ==
    FindEach(resp, "meta[http-equiv='refresh']",
        [i \in Items(resp) |-> MetaCall(i, Item(resp, i), resp)])

-----------------------------------------------------------------------------
\* bodyFormTagParser

DefaultEncType == <<"application/x-www-form-urlencoded">>

FormEncType(item) ==
    IF ~HasAttr(item, "enctype") \/ Attr(item, "enctype") = EmptyStr
    THEN DefaultEncType ELSE Attr(item, "enctype")

FormMethod(item) ==
    ToUpper(IF Attr(item, "method") = EmptyStr THEN <<"GET">> ELSE Attr(item, "method"))

IsMultipartForm(item) == HasPrefix(FormEncType(item), "multipart/")

\* the entries of dataMap the loop does not skip
UsableKeys(dataMap) ==
    {k \in DOMAIN dataMap : ~(k = EmptyStr \/ dataMap[k] = EmptyStr)}

\* the multipart.Writer's buffer after every WriteField and Close
MultipartBody(boundary, order, dataMap) ==
    Concat([n \in DOMAIN order |-> WriteField(boundary, n, order[n], dataMap[order[n]])])
    \o CloseDelimiter(boundary)

\* queryValuesWriter after the loop
QueryValues(item) ==
    IF IsMultipartForm(item) THEN NoFields
    ELSE [k \in UsableKeys(item.fields) |-> item.fields[k]]

\* req.Body as assigned before the switch on the method
FormBody(item, choice) ==
    IF IsMultipartForm(item)
    THEN MultipartBody(choice.boundary, choice.order, item.fields)
    ELSE Encode(QueryValues(item))

FormContentType(item, choice) ==
    IF IsMultipartForm(item) THEN FormDataContentType(choice.boundary)
    ELSE FormEncType(item)

\* req.URL after the switch on the method (first: the GET case taken always)
FormURLAlwaysQuery(method, actionURL, value) == actionURL \o <<"?">> \o value
FormURL(method, actionURL, value) ==
    IF method = <<"GET">> THEN actionURL \o <<"?">> \o value ELSE actionURL

\* req.Headers after the switch on the method
FormHeaders(method, contentType) ==
    IF method = <<"POST">> THEN ("Content-Type" :> contentType) ELSE NoHeaders

\* req.Depth of the request built for a form (first: one level too low)
FormDepthBelow(resp) == resp.Depth - 1
FormDepth(resp) == resp.Depth

NoChoice == [boundary |-> "", order |-> <<>>]

IsFormWithAction(item) == Matches("form[action]", item)

\* what multipart.NewWriter and the range over dataMap may pick for an element
ChoicesFor(resp, item) ==
    IF IsFormWithAction(item) /\ IsMultipartForm(item)
       /\ AbsoluteURL(resp, Attr(item, "action")) # EmptyStr
    THEN { [boundary |-> b, order |-> p] :
             b \in Boundaries, p \in Perms(UsableKeys(item.fields)) }
    ELSE { NoChoice }

FormCall(i, item, resp, choice) ==
    LET method == FormMethod(item)
        actionURL == AbsoluteURL(resp, Attr(item, "action"))
    IN  IF ~HasAttr(item, "action") THEN <<>>
        ELSE IF actionURL = EmptyStr THEN <<>>
        ELSE Call(i, [Method  |-> method,
                      URL     |-> FormURL(method, actionURL, Encode(QueryValues(item))),
                      Body    |-> FormBody(item, choice),
                      Headers |-> FormHeaders(method, FormContentType(item, choice)),
                      Depth   |-> FormDepth(resp),
                      Source  |-> "form"])

bodyFormTagOut(resp, choices) ==
    FindEach(resp, "form[action]",
        [i \in Items(resp) |-> FormCall(i, Item(resp, i), resp, choices[i])])

-----------------------------------------------------------------------------
\* JS regex based parsers

\* the configuration flag both parsers test (first: the test left out)
ScrapeJSAlways(resp) == TRUE
ScrapeJSResponses(resp) == resp.Options.ScrapeJSResponses

EndpointCalls(i, text, source, resp) ==
    LET endpoints == ExtractRelativeEndpoints(text)
    IN  Concat([n \in DOMAIN endpoints |->
                  Call(i, NewNavigationRequestURL(endpoints[n], source, resp))])

ScriptCall(i, item, resp) ==
    IF ~ScrapeJSResponses(resp) THEN <<>>
    ELSE IF item.text = EmptyStr THEN <<>>
    ELSE EndpointCalls(i, item.text, "script-content", resp)

scriptContentRegexOut(resp) ==
    FindEach(resp, "script", [i \in Items(resp) |-> ScriptCall(i, Item(resp, i), resp)])

\* string(resp.Body): the raw page, the text of its elements included
BodyString(body) ==
    body.data.text \o Concat([i \in DOMAIN body.data.elems |-> body.data.elems[i].text])

scriptJSFileRegexOut(resp) ==
    LET contentType == HeaderGet(resp.Resp.Header, "Content-Type")
    IN  IF ~ScrapeJSResponses(resp) THEN <<>>
        ELSE IF ~(HasSuffix(resp.Resp.Path, ".js") \/ ContainsTok(contentType, "/javascript"))
        THEN <<>>
        ELSE EndpointCalls(0, BodyString(resp.Body), "js-file", resp)

-----------------------------------------------------------------------------
\* parseResponse: one step of its range loop per parser

\* the parser at parserIdx runs: it panics on a nil pointer, or makes its
\* callbacks and returns to the loop
RunParser(name, nilDeref, out) ==
    /\ pc = "parse"
    /\ responseParsers[parserIdx] = name
    /\ invoked' = Append(invoked, name)
    /\ IF nilDeref
       THEN /\ pc' = "panic"
            /\ UNCHANGED <<parserIdx, emitted>>
       ELSE /\ emitted' = emitted \o
                  [n \in DOMAIN out |-> [parser |-> parserIdx, elem |-> out[n].elem,
                                         req |-> out[n].req]]
            /\ IF parserIdx = Len(responseParsers)
               THEN pc' = "done" /\ UNCHANGED parserIdx
               ELSE pc' = pc /\ parserIdx' = parserIdx + 1
    /\ UNCHANGED <<options, request, httpOutcome, response, err>>
    /\ UNCHANGED scopeVars

RunHeaderParser(name, out) ==
    /\ RunParser(name, response.Resp.nil, IF response.Resp.nil THEN <<>> ELSE out)
    /\ UNCHANGED formChoices

RunBodyParser(name, out) ==
    /\ RunParser(name, response.Reader.nil, out)
    /\ UNCHANGED formChoices

headerContentLocationParser ==
    RunHeaderParser("headerContentLocationParser", headerContentLocationOut(response))
headerLinkParser == RunHeaderParser("headerLinkParser", headerLinkOut(response))
headerLocationParser == RunHeaderParser("headerLocationParser", headerLocationOut(response))
headerRefreshParser == RunHeaderParser("headerRefreshParser", headerRefreshOut(response))

bodyATagParser == RunBodyParser("bodyATagParser", bodyATagOut(response))
bodyEmbedTagParser == RunBodyParser("bodyEmbedTagParser", bodyEmbedTagOut(response))
bodyFrameTagParser == RunBodyParser("bodyFrameTagParser", bodyFrameTagOut(response))
bodyIframeTagParser == RunBodyParser("bodyIframeTagParser", bodyIframeTagOut(response))
bodyInputSrcTagParser == RunBodyParser("bodyInputSrcTagParser", bodyInputSrcTagOut(response))
bodyIsindexActionTagParser ==
    RunBodyParser("bodyIsindexActionTagParser", bodyIsindexActionTagOut(response))
bodyScriptSrcTagParser == RunBodyParser("bodyScriptSrcTagParser", bodyScriptSrcTagOut(response))
bodyMetaContentTagParser ==
    RunBodyParser("bodyMetaContentTagParser", bodyMetaContentTagOut(response))

bodyFormTagParser ==
    \E choices \in [DOMAIN response.Reader.elems ->
                      UNION {ChoicesFor(response, response.Reader.elems[i]) :
                                i \in DOMAIN response.Reader.elems}] :
        /\ \A i \in DOMAIN choices :
              choices[i] \in ChoicesFor(response, response.Reader.elems[i])
        /\ RunParser("bodyFormTagParser", response.Reader.nil,
                     bodyFormTagOut(response, choices))
        /\ formChoices' = choices

scriptContentRegexParser ==
    RunBodyParser("scriptContentRegexParser", scriptContentRegexOut(response))

scriptJSFileRegexParser ==
    /\ RunParser("scriptJSFileRegexParser",
                 ScrapeJSResponses(response) /\ response.Resp.nil,
                 IF response.Resp.nil THEN <<>> ELSE scriptJSFileRegexOut(response))
    /\ UNCHANGED formChoices

-----------------------------------------------------------------------------
\* The crawl of one request.

Requests ==
    { [Method |-> <<"GET">>, URL |-> u, Body |-> EmptyStr, Headers |-> NoHeaders,
       Depth |-> d, Source |-> "seed"] :
        u \in { <<RequestHost, "/">>, <<Unparsable>> }, d \in 0..MaxDepth }

NoManager == [allow |-> <<>>, deny |-> <<>>, strict |-> FALSE, err |-> FALSE]
NoHost == <<>>
NotValidated == [done |-> FALSE, inScope |-> FALSE, err |-> FALSE]

Init ==
    /\ pc = "fetch"
    /\ options \in [ScrapeJSResponses : BOOLEAN]
    /\ request \in Requests
    /\ httpOutcome = NoOutcome
    /\ response = NoResponse
    /\ err = FALSE
    /\ parserIdx = 1
    /\ invoked = <<>>
    /\ emitted = <<>>
    /\ formChoices = <<>>
    /\ manager = NoManager
    /\ scopeHost = NoHost
    /\ validated = NotValidated

Next ==
    \/ makeRequest
    \/ headerContentLocationParser
    \/ headerLinkParser
    \/ headerLocationParser
    \/ headerRefreshParser
    \/ bodyATagParser
    \/ bodyEmbedTagParser
    \/ bodyFrameTagParser
    \/ bodyIframeTagParser
    \/ bodyInputSrcTagParser
    \/ bodyIsindexActionTagParser
    \/ bodyScriptSrcTagParser
    \/ bodyFormTagParser
    \/ bodyMetaContentTagParser
    \/ scriptContentRegexParser
    \/ scriptJSFileRegexParser

Spec == Init /\ [][Next]_vars

-----------------------------------------------------------------------------
\* The scope manager (pkg/utils/scope), as TestManagerValidate drives it.

\* Largest number of patterns of an allow or deny list.
MaxPatterns == 2

\* A pattern is a sequence of atoms: a literal token, "\\." (a literal dot),
\* ".*" (any run of tokens); "(" alone does not compile.
Compiles(pattern) == ~ContainsTok(pattern, "(")

RECURSIVE MatchHere(_, _)
MatchHere(pattern, s) ==
    IF pattern = <<>> THEN TRUE
    ELSE IF Head(pattern) = ".*"
         THEN \E i \in 0..Len(s) : MatchHere(Tail(pattern), SubSeq(s, i + 1, Len(s)))
    ELSE IF s = <<>> THEN FALSE
    ELSE /\ (IF Head(pattern) = "\\." THEN Head(s) = "." ELSE Head(s) = Head(pattern))
         /\ MatchHere(Tail(pattern), Tail(s))

\* regexp.MatchString: the pattern matches somewhere in s
MatchString(pattern, s) ==
    \E i \in 0..Len(s) : MatchHere(pattern, SubSeq(s, i + 1, Len(s)))

\* NewManager: compiles both lists; an error when a pattern does not compile
NewManagerResult(allow, deny, strict) ==
    IF \E i \in DOMAIN allow : ~Compiles(allow[i]) THEN [NoManager EXCEPT !.err = TRUE]
    ELSE IF \E i \in DOMAIN deny : ~Compiles(deny[i]) THEN [NoManager EXCEPT !.err = TRUE]
    ELSE [allow |-> allow, deny |-> deny, strict |-> strict, err |-> FALSE]

\* the first pattern of the list that matches decides
RECURSIVE AnyMatch(_, _)
AnyMatch(patterns, host) ==
    IF patterns = <<>> THEN FALSE
    ELSE IF MatchString(Head(patterns), host) THEN TRUE
    ELSE AnyMatch(Tail(patterns), host)

\* Manager.Validate with the allow list consulted before the deny list
ValidateAllowFirst(m, host) ==
    IF host = <<>> THEN [done |-> TRUE, inScope |-> FALSE, err |-> TRUE]
    ELSE IF m.allow # <<>> /\ AnyMatch(m.allow, host)
         THEN [done |-> TRUE, inScope |-> TRUE, err |-> FALSE]
    ELSE IF AnyMatch(m.deny, host) THEN [done |-> TRUE, inScope |-> FALSE, err |-> FALSE]
    ELSE [done |-> TRUE, inScope |-> m.allow = <<>>, err |-> FALSE]

\* Manager.Validate: deny rules, then the empty allow list, then allow rules
Validate(m, host) ==
    IF host = <<>> THEN [done |-> TRUE, inScope |-> FALSE, err |-> TRUE]
    ELSE IF AnyMatch(m.deny, host) THEN [done |-> TRUE, inScope |-> FALSE, err |-> FALSE]
    ELSE IF m.allow = <<>> THEN [done |-> TRUE, inScope |-> TRUE, err |-> FALSE]
    ELSE IF AnyMatch(m.allow, host) THEN [done |-> TRUE, inScope |-> TRUE, err |-> FALSE]
    ELSE [done |-> TRUE, inScope |-> FALSE, err |-> FALSE]

GooglePattern == <<"google", "\\.", ".*">>
IPPattern == <<"192", "\\.", "168", "\\.", "1", "\\.", "1">>
UberPattern == <<"uber", "\\.", ".*">>
ComPattern == <<".*", "\\.", "com">>
BadPattern == <<"(">>
Patterns == { GooglePattern, IPPattern, UberPattern, ComPattern, BadPattern }

GoogleHost == <<"google", ".", "com">>
TestGoogleHost == <<"test", ".", "google", ".", "com">>
UberHost == <<"uber", ".", "com">>
IPHost == <<"192", ".", "168", ".", "1", ".", "1">>
Hosts == { GoogleHost, TestGoogleHost, UberHost, IPHost,
           <<"example", ".", "org">>, <<"192", ".", "168", ".", "1", ".", "10">>, <<>> }

\* the manager TestManagerValidate builds
TestManager == [allow |-> <<GooglePattern, IPPattern>>, deny |-> <<UberPattern>>,
                strict |-> TRUE, err |-> FALSE]

NewManager ==
    /\ pc = "scope-new"
    /\ \E allow \in SeqsUpTo(Patterns, MaxPatterns), deny \in SeqsUpTo(Patterns, MaxPatterns),
          strict \in BOOLEAN :
        /\ manager' = NewManagerResult(allow, deny, strict)
        /\ pc' = IF manager'.err THEN "scope-failed" ELSE "scope-ready"
    /\ UNCHANGED <<scopeHost, validated>>
    /\ UNCHANGED crawlVars

ManagerValidate ==
    /\ pc = "scope-ready"
    /\ \E host \in Hosts :
        /\ scopeHost' = host
        /\ validated' = Validate(manager, host)
    /\ UNCHANGED <<pc, manager>>
    /\ UNCHANGED crawlVars

InitScope ==
    /\ pc = "scope-new"
    /\ options = [ScrapeJSResponses |-> FALSE]
    /\ request = CHOOSE r \in Requests : r.Depth = 0 /\ r.URL # <<Unparsable>>
    /\ httpOutcome = NoOutcome
    /\ response = NoResponse
    /\ err = FALSE
    /\ parserIdx = 1
    /\ invoked = <<>>
    /\ emitted = <<>>
    /\ formChoices = <<>>
    /\ manager = NoManager
    /\ scopeHost = NoHost
    /\ validated = NotValidated

NextScope == NewManager \/ ManagerValidate

SpecScope == InitScope /\ [][NextScope]_vars

-----------------------------------------------------------------------------
\* Properties.

Fetched == pc \in {"parse", "done", "panic", "failed"}
ParseEnded == pc \in {"done", "panic"}
EmptyResponse(resp) == resp.Body.nil /\ resp.Resp.nil /\ resp.Reader.nil

FormCalls == {n \in DOMAIN emitted : emitted[n].req.Source = "form"}
\* the form element a "form" request was built from
FormOf(n) == response.Reader.elems[emitted[n].elem]
FilledFields(item) == UsableKeys(item.fields)
QueryPair(item, k) == QueryEscape(k) \o <<"=">> \o QueryEscape(item.fields[k])

\* the part of a URL after its first "?"
RECURSIVE QueryOf(_)
QueryOf(url) ==
    IF url = <<>> THEN <<>>
    ELSE IF Head(url) = "?" THEN Tail(url) ELSE QueryOf(Tail(url))

\* body is a multipart body delimited by boundary b
MultipartEncoded(body, b) ==
    /\ Len(body) >= 5
    /\ SubSeq(body, Len(body) - 4, Len(body)) = <<CRLF, "--", b, "--", CRLF>>
    /\ \A i \in 1..(Len(body) - 1) :
          (body[i] = "--" /\ (i = 1 \/ body[i - 1] = CRLF)) => body[i + 1] = b
MultipartField(item, k) ==
    <<"Content-Disposition: form-data; name=\"">> \o k \o <<"\"", CRLF, CRLF>>
    \o item.fields[k]
\* the boundary parameter of a multipart Content-Type value
BoundaryParam(contentType) == contentType[2]
HasBoundaryParam(contentType) ==
    Len(contentType) = 2 /\ contentType[1] = "multipart/form-data; boundary="

\* C1: a 404 makes makeRequest return an empty response with a nil error, and
\* parseResponse on that response runs every parser without a failure and
\* without a callback.
C1_NotFoundParsesCleanly ==
    (Fetched /\ ~httpOutcome.transportErr /\ httpOutcome.StatusCode = 404)
        => /\ EmptyResponse(response)
           /\ err = FALSE
           /\ pc # "panic"
           /\ emitted = <<>>

\* C2: parseResponse calls every parser of the registry exactly once, in
\* registration order, whatever the earlier ones emitted; callbacks of an
\* earlier parser precede those of a later one, and within one parser they
\* follow document order.
C2_EveryParserOnceInOrder ==
    /\ Len(invoked) <= Len(responseParsers)
    /\ invoked = SubSeq(responseParsers, 1, Len(invoked))
    /\ ParseEnded => invoked = responseParsers
    /\ \A m, n \in DOMAIN emitted :
          m < n => /\ emitted[m].parser <= emitted[n].parser
                   /\ emitted[m].parser = emitted[n].parser
                        => emitted[m].elem <= emitted[n].elem

\* C3: a form whose method is omitted or empty yields a GET request with
\* every filled field in the query string of its URL and an empty body.
C3_OmittedMethodIsBodilessGet ==
    \A n \in FormCalls :
        Attr(FormOf(n), "method") = EmptyStr
            => /\ emitted[n].req.Method = <<"GET">>
               /\ \A k \in FilledFields(FormOf(n)) :
                     ContainsSeq(QueryOf(emitted[n].req.URL), QueryPair(FormOf(n), k))
               /\ emitted[n].req.Body = EmptyStr

CarriesFields(n) ==
    \A k \in FilledFields(FormOf(n)) :
        IF IsMultipartForm(FormOf(n))
        THEN ContainsSeq(emitted[n].req.Body, MultipartField(FormOf(n), k))
        ELSE ContainsSeq(emitted[n].req.Body, QueryPair(FormOf(n), k))

\* the Content-Type a form request must name
ExpectedContentType(n) ==
    LET ct == emitted[n].req.Headers["Content-Type"]
    IN  IF IsMultipartForm(FormOf(n))
        THEN HasBoundaryParam(ct) /\ MultipartEncoded(emitted[n].req.Body, BoundaryParam(ct))
        ELSE ct = FormEncType(FormOf(n))

JSSources == {"script-content", "js-file"}
Requests_(calls) == [n \in DOMAIN calls |-> calls[n].req]
NotJS(req) == req.Source \notin JSSources

\* parseResponse as a function of the response: every callback it makes
PipelineOut(resp, choices) ==
    headerContentLocationOut(resp) \o headerLinkOut(resp) \o headerLocationOut(resp)
    \o headerRefreshOut(resp)
    \o bodyATagOut(resp) \o bodyEmbedTagOut(resp) \o bodyFrameTagOut(resp)
    \o bodyIframeTagOut(resp) \o bodyInputSrcTagOut(resp)
    \o bodyIsindexActionTagOut(resp) \o bodyScriptSrcTagOut(resp)
    \o bodyFormTagOut(resp, choices) \o bodyMetaContentTagOut(resp)
    \o scriptContentRegexOut(resp) \o scriptJSFileRegexOut(resp)

\* C7: with ScrapeJSResponses false no request has the source "script-content"
\* or "js-file", and the other parsers emit what they emit with the flag true.
C7_NoJSRequestsWhenDisabled ==
    ~options.ScrapeJSResponses =>
        /\ \A n \in DOMAIN emitted : NotJS(emitted[n].req)
        /\ pc = "done" =>
              Requests_(emitted) =
                SelectSeq(Requests_(PipelineOut(
                              [response EXCEPT !.Options.ScrapeJSResponses = TRUE],
                              formChoices)),
                          NotJS)

C7_Witness ==
    /\ pc = "done"
    /\ ~options.ScrapeJSResponses
    /\ HasSuffix(response.Resp.Path, ".js")
    /\ ExtractRelativeEndpoints(BodyString(response.Body)) # <<>>
    /\ \E i \in DOMAIN response.Reader.elems :
          /\ response.Reader.elems[i].tag = "script"
          /\ ExtractRelativeEndpoints(response.Reader.elems[i].text) # <<>>
    /\ Len(emitted) >= 3

Is2xx(code) == code \in 200..299

\* C8 as claimed: after a transport error or a status that is neither 2xx nor
\* 404, makeRequest returns an error or a response without body and document.
C8_Non2xxYieldsNothingUsable ==
    (Fetched /\ (httpOutcome.transportErr
                 \/ ~(Is2xx(httpOutcome.StatusCode) \/ httpOutcome.StatusCode = 404)))
        => (err \/ (response.Body.nil /\ response.Reader.nil))

\* C8 amended: after a transport error makeRequest returns an error and a
\* response without body and document; after any status other than 404, 2xx
\* or not, whose body was read, it returns a nil error and a response holding
\* the body and its parsed document, which the pipeline then processes.
C8_OnlyErrorsAnd404YieldNothing ==
    Fetched =>
        /\ httpOutcome.transportErr => (err /\ EmptyResponse(response))
        /\ (~httpOutcome.transportErr /\ httpOutcome.StatusCode # 404
            /\ ~httpOutcome.readErr)
              => /\ ~err
                 /\ ~response.Body.nil /\ response.Body.data = httpOutcome.page
                 /\ ~response.Resp.nil
                 /\ ~response.Reader.nil
                 /\ response.Reader.elems = httpOutcome.page.elems
                 /\ pc # "failed"

C8_Witness ==
    /\ pc = "done"
    /\ httpOutcome.StatusCode = 500
    /\ ~err
    /\ \E n \in DOMAIN emitted : emitted[n].req.Source = "a"
    /\ \E n \in DOMAIN emitted : emitted[n].req.Source = "location"

\* C9: every request passed to the callback has a non-empty URL: a reference
\* the resolver cannot resolve is not emitted.
C9_NoEmptyURLEmitted ==
    \A n \in DOMAIN emitted : emitted[n].req.URL # EmptyStr

====
